---- MODULE Spec2Model ----
(***************************************************************************)
(* quickfuzz: an interactive terminal picker (src/src/main.rs).            *)
(*                                                                         *)
(* A String is a sequence of characters, a character a one-letter string.  *)
(* An Option is a sequence of length at most one: <<>> is None and <<x>>   *)
(* is Some(x).  Rust indices start at 0 and TLA+ sequences at 1, so the    *)
(* Rust expression v[i] is v[i + 1] here.                                  *)
(***************************************************************************)
EXTENDS Integers, Sequences, FiniteSets, TLC

\* ------------------------------------------------------------------ bounds
MaxListLen == 3
MaxQueryLen == 2

\* ------------------------------------------------------- inputs of the run
\* The characters the keyboard can type into the query.
QueryChars == {"a", "b", "p"}

\* The lines the candidates are drawn from: an empty line, lines that tie on
\* every query typed from QueryChars ("ab", "ba"), and one with an upper case
\* letter.
CandidatePool == { <<>>, <<"a", "A">>, <<"a", "b">>, <<"b", "a">> }

apple == <<"a", "p", "p", "l", "e">>
banana == <<"b", "a", "n", "a", "n", "a">>
grape == <<"g", "r", "a", "p", "e">>
ExampleList == <<apple, banana, grape>>

RECURSIVE SeqsUpTo(_, _)
SeqsUpTo(S, n) ==
    IF n = 0 THEN {<<>>}
    ELSE LET shorter == SeqsUpTo(S, n - 1)
         IN  shorter \cup {Append(s, x) : s \in shorter, x \in S}

\* The capacity in bytes of the line buffer of standard output.
StdoutBufferCapacity == 1024

\* A line that does not fit into the buffer of standard output.
LongLine == [i \in 1..StdoutBufferCapacity |-> "x"]

\* A line of two-byte characters: fewer characters than the buffer has
\* bytes, and as many bytes.
WideLine == [i \in 1..(StdoutBufferCapacity \div 2) |-> "é"]

\* What standard input can hold: duplicates and empty lines included.
StdinLists ==
    SeqsUpTo(CandidatePool, MaxListLen)
       \cup {ExampleList, <<LongLine>>, <<WideLine>>, << <<"é">> >>}

\* The keys tui_input turns into an edit of the query buffer, and one (Tab)
\* it has no request for.
EditKeys == {"Backspace", "Delete", "Left", "Right", "Home", "End", "Tab"}

\* The event classes of crossterm other than Key and Mouse.
OtherEvents == {"Resize", "FocusGained", "FocusLost", "Paste"}

\* ----------------------------------------------------------------- Option
None == <<>>
Some(x) == <<x>>
IsSome(o) == o # <<>>
Unwrap(o) == o[1]

Max(a, b) == IF a >= b THEN a ELSE b

Range(seq) == {seq[k] : k \in DOMAIN seq}

\* p is the beginning of s
IsPrefix(p, s) == Len(p) <= Len(s) /\ p = SubSeq(s, 1, Len(p))

\* The bytes of a String: Rust strings are UTF-8, so a character of the
\* ASCII range is one byte, written here as the character, and "é" is the
\* two bytes C3 A9.
Utf8Char(c) == IF c = "é" THEN <<"C3", "A9">> ELSE <<c>>

RECURSIVE Utf8(_)
Utf8(str) ==
    IF Len(str) = 0 THEN <<>>
    ELSE IF Len(str) = 1 THEN Utf8Char(str[1])
    ELSE LET half == Len(str) \div 2
         IN  Utf8(SubSeq(str, 1, half)) \o Utf8(SubSeq(str, half + 1, Len(str)))

\* ------------------------------------------------------ the terminal's modes
\* The escape sequences of crossterm's commands, in the order they are
\* written: EnterAlternateScreen, LeaveAlternateScreen, EnableMouseCapture,
\* DisableMouseCapture (the inverse sequences in reverse order) and Show.
EnterAlternateScreenSeq == <<"?1049h">>
LeaveAlternateScreenSeq == <<"?1049l">>
EnableMouseCaptureSeq == <<"?1000h", "?1002h", "?1003h", "?1015h", "?1006h">>
DisableMouseCaptureSeq == <<"?1006l", "?1015l", "?1003l", "?1002l", "?1000l">>
ShowSeq == <<"?25h">>

\* the bytes of a frame that ratatui queued: they change none of the modes
FrameBytes == <<"frame">>

\* the last position of seqs that holds one of the sequences of S, 0 if none
LastOf(seqs, S) ==
    LET at == {i \in DOMAIN seqs : seqs[i] \in S}
    IN  IF at = {} THEN 0 ELSE CHOOSE i \in at : \A j \in at : j <= i

\* The modes after the terminal received the sequences seqs, in their order.
\* The terminal has one mouse tracking mode: setting ?1000, ?1002 or ?1003
\* turns mouse reporting on and resetting any of them turns it off, so the
\* last such sequence decides.
AlternateScreenAfter(on, seqs) ==
    LET last == LastOf(seqs, {"?1049h", "?1049l"})
    IN  IF last = 0 THEN on ELSE seqs[last] = "?1049h"

MouseCaptureAfter(on, seqs) ==
    LET last == LastOf(seqs, {"?1000h", "?1002h", "?1003h",
                              "?1000l", "?1002l", "?1003l"})
    IN  IF last = 0 THEN on ELSE seqs[last] \in {"?1000h", "?1002h", "?1003h"}

CursorHiddenAfter(hidden, seqs) ==
    IF "?25h" \in Range(seqs) THEN FALSE ELSE hidden

\* ------------------------------------------------------------ Filter Engine
\* a scorer that looks for every query character in either case
CountCharAnyCase(c, subject) ==
    LET lower(x) == IF x = "A" THEN "a" ELSE x
    IN  Cardinality({j \in DOMAIN subject : lower(c) = lower(subject[j])})

\* subject.chars().filter(|cc| c == *cc).count(): the number of positions of
\* subject that hold c
CountChar(c, subject) ==
    Cardinality({j \in DOMAIN subject : c = subject[j]})

RECURSIVE compute_fuzzy_find_score(_, _)
compute_fuzzy_find_score(query, subject) ==
    IF query = <<>> THEN 0
    ELSE CountChar(Head(query), subject)
         + compute_fuzzy_find_score(Tail(query), subject)

RECURSIVE ScoredFrom_KeepZero(_, _, _)
\* the filter written `*score >= 0`: candidates of score 0 are kept
ScoredFrom_KeepZero(query, list, i) ==
    IF i >= Len(list) THEN <<>>
    ELSE LET score == compute_fuzzy_find_score(query, list[i + 1])
             rest == ScoredFrom_KeepZero(query, list, i + 1)
         IN  IF score >= 0 THEN <<<<i, score>>>> \o rest ELSE rest

RECURSIVE ScoredFrom(_, _, _)
\* list.iter().enumerate().map(|(i, r)| (i, score)).filter(|(_, s)| *s > 0),
\* from index i (0-based) on
ScoredFrom(query, list, i) ==
    IF i >= Len(list) THEN <<>>
    ELSE LET score == compute_fuzzy_find_score(query, list[i + 1])
             rest == ScoredFrom(query, list, i + 1)
         IN  IF score > 0 THEN <<<<i, score>>>> \o rest ELSE rest

RECURSIVE InsertByKey_Unstable(_, _)
\* a sort that puts e in front of the entries of equal key
InsertByKey_Unstable(sorted, e) ==
    IF sorted = <<>> THEN <<e>>
    ELSE IF sorted[Len(sorted)][2] < e[2] THEN Append(sorted, e)
    ELSE Append(InsertByKey_Unstable(SubSeq(sorted, 1, Len(sorted) - 1), e),
                sorted[Len(sorted)])

RECURSIVE InsertByKey(_, _)
\* e goes behind every entry whose key is not greater than its own
InsertByKey(sorted, e) ==
    IF sorted = <<>> THEN <<e>>
    ELSE IF sorted[Len(sorted)][2] <= e[2] THEN Append(sorted, e)
    ELSE Append(InsertByKey(SubSeq(sorted, 1, Len(sorted) - 1), e),
                sorted[Len(sorted)])

RECURSIVE SortByKeyFrom(_, _, _)
SortByKeyFrom(scores, k, sorted) ==
    IF k > Len(scores) THEN sorted
    ELSE SortByKeyFrom(scores, k + 1, InsertByKey(sorted, scores[k]))

\* scores.sort_by_key(|(_, score)| *score): a stable sort, ascending
sort_by_key(scores) == SortByKeyFrom(scores, 1, <<>>)

\* fuzzy_find without the early return for an empty query
fuzzy_find_NoEmptyCase(query, list) ==
    LET scores == sort_by_key(ScoredFrom(query, list, 0))
    IN  [k \in 1..Len(scores) |-> list[scores[k][1] + 1]]

fuzzy_find(query, list) ==
    IF query = <<>> THEN list
    ELSE LET scores == sort_by_key(ScoredFrom(query, list, 0))
         IN  [k \in 1..Len(scores) |-> list[scores[k][1] + 1]]

\* ------------------------------------------------------------- Query Buffer
\* tui_input's Input::handle_event, for the key events the dispatcher hands
\* it: the value and the cursor after the key.
InsertChar(value, cur, c) ==
    [value |-> SubSeq(value, 1, cur) \o <<c>> \o SubSeq(value, cur + 1, Len(value)),
     cursor |-> cur + 1]

DeletePrevChar(value, cur) ==
    IF cur = 0 THEN [value |-> value, cursor |-> cur]
    ELSE [value |-> SubSeq(value, 1, cur - 1) \o SubSeq(value, cur + 1, Len(value)),
          cursor |-> cur - 1]

DeleteNextChar(value, cur) ==
    IF cur = Len(value) THEN [value |-> value, cursor |-> cur]
    ELSE [value |-> SubSeq(value, 1, cur) \o SubSeq(value, cur + 2, Len(value)),
          cursor |-> cur]

handle_event(value, cur, key) ==
    CASE key = "Backspace" -> DeletePrevChar(value, cur)
      [] key = "Delete"    -> DeleteNextChar(value, cur)
      [] key = "Left"      -> [value |-> value, cursor |-> Max(cur, 1) - 1]
      [] key = "Right"     -> [value |-> value,
                               cursor |-> IF cur < Len(value) THEN cur + 1 ELSE cur]
      [] key = "Home"      -> [value |-> value, cursor |-> 0]
      [] key = "End"       -> [value |-> value, cursor |-> Len(value)]
      [] key = "Tab"       -> [value |-> value, cursor |-> cur]
      [] OTHER             -> InsertChar(value, cur, key)

\* ------------------------------------------------- Selection State Machine
\* a reconciliation that does not select the first entry of a non-empty list
Reconcile_NoAutoSelect(sel, flt) ==
    IF IsSome(sel)
    THEN IF Unwrap(sel) >= Len(flt)
         THEN Some(Max(Len(flt), 1) - 1)
         ELSE sel
    ELSE sel

\* a reconciliation that clears the selection when the filtered list is empty
Reconcile_ClearsOnEmpty(sel, flt) ==
    IF IsSome(sel)
    THEN IF Unwrap(sel) >= Len(flt)
         THEN (IF flt # <<>> THEN Some(Len(flt) - 1) ELSE None)
         ELSE sel
    ELSE IF flt # <<>> THEN Some(0) ELSE sel

\* run_app, lines 76-90: the selection after the filtered list was recomputed
Reconcile(sel, flt) ==
    IF IsSome(sel)
    THEN IF Unwrap(sel) >= Len(flt)
         THEN Some(Max(Len(flt), 1) - 1)
         ELSE sel
    ELSE IF flt # <<>> THEN Some(0) ELSE sel

\* a Move Up that wraps from the first entry to the last
MoveUp_Wraps(sel, flt) ==
    IF IsSome(sel)
    THEN IF Unwrap(sel) > 0 THEN Some(Unwrap(sel) - 1)
         ELSE IF flt # <<>> THEN Some(Len(flt) - 1) ELSE sel
    ELSE IF flt # <<>> THEN Some(Len(flt) - 1) ELSE sel

\* run_app, lines 106-118
MoveUp(sel, flt) ==
    IF IsSome(sel)
    THEN IF Unwrap(sel) > 0 THEN Some(Unwrap(sel) - 1) ELSE sel
    ELSE IF flt # <<>> THEN Some(Len(flt) - 1) ELSE sel

\* run_app, lines 120-132
MoveDown(sel, flt) ==
    IF IsSome(sel)
    THEN IF Unwrap(sel) + 1 < Len(flt) THEN Some(Unwrap(sel) + 1) ELSE sel
    ELSE IF flt # <<>> THEN Some(0) ELSE sel

\* -------------------------------------------------------------------- state
VARIABLES
    pc,                \* the statement the process is about to run
    list,              \* State.list: the candidates read from standard input
    query,             \* State.input_widget: the value of the query buffer
    cursor,            \* State.input_widget: the cursor of the query buffer
    selected,          \* State.list_state.selected(): an Option of an index
    filtered,          \* State.filtered
    event,             \* the event read in this iteration of the loop
    raw_mode,          \* the terminal is in raw mode
    alternate_screen,  \* the terminal shows the alternate screen
    mouse_capture,     \* the terminal reports mouse events
    cursor_hidden,     \* the terminal's cursor is hidden
    acquired,          \* lines 33-39 have all succeeded: raw mode, screen, mouse
    chosen,            \* Option: the String run_app returned
    result,            \* of inner_main: "running", "Ok" or "Err"
    err_msg,           \* the error inner_main returned, "" if none
    printed,           \* the bytes of the chosen string written to stdout
    buffered,          \* its bytes in the line buffer of standard output
    pending,           \* the escape sequences left in the buffer of stdout
    stderr,            \* what was written to standard error, message by message
    stderr_fault,      \* how standard error met the write: "none" if it took it
    exit_code          \* "running", "SUCCESS", "FAILURE" or "PANIC" (abort)

vars == <<pc, list, query, cursor, selected, filtered, event, raw_mode,
          alternate_screen, mouse_capture, cursor_hidden, acquired, chosen,
          result, err_msg, printed, buffered, pending, stderr, stderr_fault,
          exit_code>>

app == <<list, query, cursor, selected, filtered>>
term == <<raw_mode, alternate_screen, mouse_capture, cursor_hidden>>
outcome == <<chosen, result, err_msg, printed, buffered, stderr,
             stderr_fault, exit_code>>

IoError == "io error"
StdinError == "stdin error"
UserCancelled == "User cancelled"
NotYetImplemented == "not yet implemented"
FailedPrinting == "failed printing to stdout"
FailedPrintingStderr == "failed printing to stderr"
IndexOutOfBounds == "index out of bounds"

Init ==
    /\ pc = "read_stdin"
    /\ list = <<>>
    /\ query = <<>>
    /\ cursor = 0
    /\ selected = None
    /\ filtered = <<>>
    /\ event = "none"
    /\ raw_mode = FALSE
    /\ alternate_screen = FALSE
    /\ mouse_capture = FALSE
    /\ cursor_hidden = FALSE
    /\ acquired = FALSE
    /\ chosen = None
    /\ result = "running"
    /\ err_msg = ""
    /\ printed = <<>>
    /\ buffered = <<>>
    /\ pending = <<>>
    /\ stderr = <<>>
    /\ stderr_fault = "none"
    /\ exit_code = "running"

\* State belongs to run_app: it is dropped when run_app returns or unwinds
DropState ==
    /\ list' = <<>>
    /\ query' = <<>>
    /\ cursor' = 0
    /\ selected' = None
    /\ filtered' = <<>>

\* `?` on an Err: inner_main returns it to main at once
Propagate(msg) ==
    /\ pc' = "main"
    /\ result' = "Err"
    /\ err_msg' = msg
    /\ DropState

\* what standard error holds after the first k characters of msg arrived
Written(out, msg, k) ==
    IF k = 0 THEN out ELSE Append(out, SubSeq(msg, 1, k))

\* a panic: the message is written to standard error and the process aborts
\* with the panic status; nothing after the panicking statement runs.  The
\* write is not checked: a closed standard error takes nothing, one that
\* fails takes nothing or a beginning of the message.
Panic(msg) ==
    /\ pc' = "exited"
    /\ \/ /\ stderr_fault' = "none"
          /\ stderr' = Append(stderr, msg)
       \/ /\ stderr_fault' = "closed"
          /\ stderr' = stderr
       \/ /\ stderr_fault' = "failed"
          /\ \E k \in 0..(Len(msg) - 1) : stderr' = Written(stderr, msg, k)
    /\ exit_code' = "PANIC"
    /\ DropState

\* the read of standard input placed behind enable_raw_mode: a failed read
\* returns with the terminal in raw mode
ReadStdin_AfterRawMode ==
    /\ pc = "read_stdin"
    /\ \/ /\ \E L \in StdinLists : list' = L
          /\ pc' = "enable_raw"
          /\ UNCHANGED <<query, cursor, selected, filtered, result, err_msg,
                         raw_mode>>
       \/ /\ Propagate(StdinError)
          /\ raw_mode' = TRUE
    /\ UNCHANGED <<event, alternate_screen, mouse_capture, cursor_hidden,
                   acquired, pending, chosen, printed, buffered, stderr,
                   stderr_fault, exit_code>>

\* ---------------------------------------------------------------- inner_main
\* line 31: io::stdin().lines().collect()?
ReadStdin ==
    /\ pc = "read_stdin"
    /\ \/ /\ \E L \in StdinLists : list' = L
          /\ pc' = "enable_raw"
          /\ UNCHANGED <<query, cursor, selected, filtered, result, err_msg>>
       \/ Propagate(StdinError)
    /\ UNCHANGED <<event, term, acquired, pending, chosen, printed, buffered,
                   stderr, stderr_fault, exit_code>>

\* line 33: enable_raw_mode()?
EnableRawMode ==
    /\ pc = "enable_raw"
    /\ \/ /\ raw_mode' = TRUE
          /\ pc' = "enter_alt"
          /\ UNCHANGED <<app, result, err_msg>>
       \/ /\ Propagate(IoError)
          /\ UNCHANGED raw_mode
    /\ UNCHANGED <<event, alternate_screen, mouse_capture, cursor_hidden,
                   acquired, pending, chosen, printed, buffered, stderr,
                   stderr_fault, exit_code>>

\* line 38: stdout.execute(EnterAlternateScreen)?  execute puts the escape
\* sequence into the buffer of standard output and flushes it; when the flush
\* fails the sequence stays in the buffer.
EnterAlternateScreen ==
    /\ pc = "enter_alt"
    /\ \/ /\ alternate_screen' = TRUE
          /\ pc' = "enable_mouse"
          /\ UNCHANGED <<app, result, err_msg, pending>>
       \/ /\ Propagate(IoError)
          /\ pending' = EnterAlternateScreenSeq
          /\ UNCHANGED alternate_screen
    /\ UNCHANGED <<event, raw_mode, mouse_capture, cursor_hidden, acquired,
                   chosen, printed, buffered, stderr, stderr_fault,
                   exit_code>>

\* line 39: .execute(EnableMouseCapture)?  The command is a run of escape
\* sequences of which the first turns mouse reporting on: a flush that fails
\* has delivered the first k of them, none included, and the others stay in
\* the buffer.
EnableMouseCapture ==
    /\ pc = "enable_mouse"
    /\ \/ /\ mouse_capture' = TRUE
          /\ acquired' = TRUE
          /\ pc' = "terminal_new"
          /\ UNCHANGED <<app, result, err_msg, pending>>
       \/ /\ Propagate(IoError)
          /\ \E k \in 0..(Len(EnableMouseCaptureSeq) - 1) :
                /\ mouse_capture' =
                      MouseCaptureAfter(mouse_capture,
                                        SubSeq(EnableMouseCaptureSeq, 1, k))
                /\ pending' = SubSeq(EnableMouseCaptureSeq, k + 1,
                                     Len(EnableMouseCaptureSeq))
          /\ UNCHANGED acquired
    /\ UNCHANGED <<event, raw_mode, alternate_screen, cursor_hidden, chosen,
                   printed, buffered, stderr, stderr_fault, exit_code>>

\* line 43: Terminal::new(backend)?, then run_app is entered (line 45) with
\* the State of lines 47-52
TerminalNew ==
    /\ pc = "terminal_new"
    /\ \/ /\ pc' = "loop"
          /\ query' = <<>>
          /\ cursor' = 0
          /\ selected' = None
          /\ filtered' = <<>>
          /\ UNCHANGED <<list, result, err_msg>>
       \/ Propagate(IoError)
    /\ UNCHANGED <<event, term, acquired, pending, chosen, printed, buffered,
                   stderr, stderr_fault, exit_code>>

\* ------------------------------------------------------------------ run_app
\* a Refresh that recomputes the filtered list only after a character was
\* typed, and keeps the list of the iteration before after any other event
Refresh_StaleFilter ==
    /\ pc = "loop"
    /\ filtered' = IF event \in QueryChars \cup {"none"}
                   THEN fuzzy_find(query, list)
                   ELSE filtered
    /\ selected' = Reconcile(selected, filtered')
    /\ event' = "none"
    /\ pc' = "draw"
    /\ UNCHANGED <<list, query, cursor, term, acquired, pending, outcome>>

\* lines 74-90: recompute the filtered list, then reconcile the selection
Refresh ==
    /\ pc = "loop"
    /\ filtered' = fuzzy_find(query, list)
    /\ selected' = Reconcile(selected, filtered')
    /\ event' = "none"
    /\ pc' = "draw"
    /\ UNCHANGED <<list, query, cursor, term, acquired, pending, outcome>>

\* line 92: terminal.draw(|f| draw_ui(f, &mut state))?; draw_ui sets the
\* cursor, so the frame is drawn with the cursor shown.  A draw that fails
\* can leave bytes of the frame in the buffer of standard output.
Draw ==
    /\ pc = "draw"
    /\ \/ /\ pc' = "read_event"
          /\ cursor_hidden' = FALSE
          /\ UNCHANGED <<app, result, err_msg, pending>>
       \/ /\ Propagate(IoError)
          /\ pending' \in {<<>>, FrameBytes}
          /\ UNCHANGED cursor_hidden
    /\ UNCHANGED <<event, raw_mode, alternate_screen, mouse_capture,
                   acquired, chosen, printed, buffered, stderr, stderr_fault,
                   exit_code>>

\* line 94: event::read()? fails
ReadEventErr ==
    /\ pc = "read_event"
    /\ Propagate(IoError)
    /\ UNCHANGED <<event, term, acquired, pending, chosen, printed, buffered,
                   stderr, stderr_fault, exit_code>>

\* an Enter that returns the default String when nothing is selected
KeyEnter_ReturnsDefault ==
    /\ pc = "read_event"
    /\ event' = "Enter"
    /\ \/ /\ IsSome(selected)
          /\ Unwrap(selected) < Len(filtered)
          /\ chosen' = Some(filtered[Unwrap(selected) + 1])
          /\ pc' = "disable_raw"
          /\ DropState
          /\ UNCHANGED <<stderr, stderr_fault, exit_code>>
       \/ /\ IsSome(selected)
          /\ Unwrap(selected) >= Len(filtered)
          /\ Panic(IndexOutOfBounds)
          /\ UNCHANGED chosen
       \/ /\ ~IsSome(selected)
          /\ chosen' = Some(<<>>)
          /\ pc' = "disable_raw"
          /\ DropState
          /\ UNCHANGED <<stderr, stderr_fault, exit_code>>
    /\ UNCHANGED <<term, acquired, pending, result, err_msg, printed,
                   buffered>>

\* lines 96-100: KeyCode::Enter
KeyEnter ==
    /\ pc = "read_event"
    /\ event' = "Enter"
    /\ \/ /\ IsSome(selected)
          /\ Unwrap(selected) < Len(filtered)
          /\ chosen' = Some(filtered[Unwrap(selected) + 1])
          /\ pc' = "disable_raw"
          /\ DropState
          /\ UNCHANGED <<stderr, stderr_fault, exit_code>>
       \/ /\ IsSome(selected)
          /\ Unwrap(selected) >= Len(filtered)
          /\ Panic(IndexOutOfBounds)
          /\ UNCHANGED chosen
       \/ /\ ~IsSome(selected)
          /\ pc' = "loop"
          /\ UNCHANGED <<app, chosen, stderr, stderr_fault, exit_code>>
    /\ UNCHANGED <<term, acquired, pending, result, err_msg, printed,
                   buffered>>

\* an Esc that returns Ok with an empty String instead of the error
KeyEsc_ReturnsEmpty ==
    /\ pc = "read_event"
    /\ event' = "Esc"
    /\ chosen' = Some(<<>>)
    /\ pc' = "disable_raw"
    /\ DropState
    /\ UNCHANGED <<term, acquired, pending, result, err_msg, printed,
                   buffered, stderr, stderr_fault, exit_code>>

\* lines 102-104: KeyCode::Esc
KeyEsc ==
    /\ pc = "read_event"
    /\ event' = "Esc"
    /\ Propagate(UserCancelled)
    /\ UNCHANGED <<term, acquired, pending, chosen, printed, buffered,
                   stderr, stderr_fault, exit_code>>

\* lines 106-118: KeyCode::Up
KeyUp ==
    /\ pc = "read_event"
    /\ event' = "Up"
    /\ selected' = MoveUp(selected, filtered)
    /\ pc' = "loop"
    /\ UNCHANGED <<list, query, cursor, filtered, term, acquired, pending,
                   outcome>>

\* lines 120-132: KeyCode::Down
KeyDown ==
    /\ pc = "read_event"
    /\ event' = "Down"
    /\ selected' = MoveDown(selected, filtered)
    /\ pc' = "loop"
    /\ UNCHANGED <<list, query, cursor, filtered, term, acquired, pending,
                   outcome>>

\* an edit of the query that also moves the selection back to the first entry
KeyEdit_ResetsSelection ==
    /\ pc = "read_event"
    /\ \E key \in EditKeys \cup QueryChars :
          /\ key \in QueryChars => Len(query) < MaxQueryLen
          /\ event' = key
          /\ query' = handle_event(query, cursor, key).value
          /\ cursor' = handle_event(query, cursor, key).cursor
    /\ selected' = Some(0)
    /\ pc' = "loop"
    /\ UNCHANGED <<list, filtered, term, acquired, pending, outcome>>

\* lines 134-136: every other key goes to the query buffer
KeyEdit ==
    /\ pc = "read_event"
    /\ \E key \in EditKeys \cup QueryChars :
          /\ key \in QueryChars => Len(query) < MaxQueryLen
          /\ event' = key
          /\ query' = handle_event(query, cursor, key).value
          /\ cursor' = handle_event(query, cursor, key).cursor
    /\ pc' = "loop"
    /\ UNCHANGED <<list, selected, filtered, term, acquired, pending,
                   outcome>>

\* a mouse event that falls through to the ignored events
EventMouse_Ignored ==
    /\ pc = "read_event"
    /\ event' = "Mouse"
    /\ pc' = "loop"
    /\ UNCHANGED <<app, term, acquired, pending, outcome>>

\* line 139: Event::Mouse(_) => todo!()
EventMouse ==
    /\ pc = "read_event"
    /\ event' = "Mouse"
    /\ Panic(NotYetImplemented)
    /\ UNCHANGED <<term, acquired, pending, chosen, result, err_msg, printed,
                   buffered>>

\* line 141: _ => {}
EventOther ==
    /\ pc = "read_event"
    /\ \E e \in OtherEvents : event' = e
    /\ pc' = "loop"
    /\ UNCHANGED <<app, term, acquired, pending, outcome>>

\* ------------------------------------------------- inner_main, after run_app
\* disable_raw_mode() with its error ignored: the release goes on
DisableRawMode_IgnoresError ==
    /\ pc = "disable_raw"
    /\ \/ /\ raw_mode' = FALSE
          /\ pc' = "leave_alt"
          /\ UNCHANGED <<app, result, err_msg>>
       \/ /\ pc' = "leave_alt"
          /\ UNCHANGED <<raw_mode, app, result, err_msg>>
    /\ UNCHANGED <<event, alternate_screen, mouse_capture, cursor_hidden,
                   acquired, pending, chosen, printed, buffered, stderr,
                   stderr_fault, exit_code>>

\* line 55: disable_raw_mode()?
DisableRawMode ==
    /\ pc = "disable_raw"
    /\ \/ /\ raw_mode' = FALSE
          /\ pc' = "leave_alt"
          /\ UNCHANGED <<app, result, err_msg>>
       \/ /\ Propagate(IoError)
          /\ UNCHANGED raw_mode
    /\ UNCHANGED <<event, alternate_screen, mouse_capture, cursor_hidden,
                   acquired, pending, chosen, printed, buffered, stderr,
                   stderr_fault, exit_code>>

\* line 59: .execute(LeaveAlternateScreen)?
LeaveAlternateScreen ==
    /\ pc = "leave_alt"
    /\ \/ /\ alternate_screen' = FALSE
          /\ pc' = "disable_mouse"
          /\ UNCHANGED <<app, result, err_msg, pending>>
       \/ /\ Propagate(IoError)
          /\ pending' = LeaveAlternateScreenSeq
          /\ UNCHANGED alternate_screen
    /\ UNCHANGED <<event, raw_mode, mouse_capture, cursor_hidden, acquired,
                   chosen, printed, buffered, stderr, stderr_fault,
                   exit_code>>

\* line 60: .execute(DisableMouseCapture)?  A flush that fails has delivered
\* the first k sequences, and mouse reporting is off as soon as one of them
\* resets a tracking mode; the others stay in the buffer.
DisableMouseCapture ==
    /\ pc = "disable_mouse"
    /\ \/ /\ mouse_capture' = FALSE
          /\ pc' = "show_cursor"
          /\ UNCHANGED <<app, result, err_msg, pending>>
       \/ /\ Propagate(IoError)
          /\ \E k \in 0..(Len(DisableMouseCaptureSeq) - 1) :
                /\ mouse_capture' =
                      MouseCaptureAfter(mouse_capture,
                                        SubSeq(DisableMouseCaptureSeq, 1, k))
                /\ pending' = SubSeq(DisableMouseCaptureSeq, k + 1,
                                     Len(DisableMouseCaptureSeq))
    /\ UNCHANGED <<event, raw_mode, alternate_screen, cursor_hidden,
                   acquired, chosen, printed, buffered, stderr, stderr_fault,
                   exit_code>>

\* line 62: terminal.show_cursor()?
ShowCursor ==
    /\ pc = "show_cursor"
    /\ \/ /\ cursor_hidden' = FALSE
          /\ pc' = "print"
          /\ UNCHANGED <<app, result, err_msg, pending>>
       \/ /\ Propagate(IoError)
          /\ pending' = ShowSeq
          /\ UNCHANGED cursor_hidden
    /\ UNCHANGED <<event, raw_mode, alternate_screen, mouse_capture,
                   acquired, chosen, printed, buffered, stderr, stderr_fault,
                   exit_code>>

\* lines 64-66: print!("{chosen}"); Ok(()). Standard output is line
\* buffered and the chosen string holds no newline: a string of fewer bytes
\* than the buffer stays in it until the process exits; a longer one is
\* written by print! itself (write_all).  That write delivers all the bytes,
\* or nothing while reporting success (a closed standard output: EBADF
\* counts as written), or only the first k bytes before it fails, and then
\* print! panics.
PrintChosen ==
    /\ pc = "print"
    /\ LET bytes == Utf8(Unwrap(chosen))
       IN  \/ /\ Len(bytes) < StdoutBufferCapacity
              /\ buffered' = buffered \o bytes
              /\ result' = "Ok"
              /\ pc' = "main"
              /\ UNCHANGED <<app, printed, stderr, stderr_fault, exit_code>>
           \/ /\ Len(bytes) >= StdoutBufferCapacity
              /\ \/ printed' = printed \o bytes
                 \/ printed' = printed
              /\ result' = "Ok"
              /\ pc' = "main"
              /\ UNCHANGED <<app, buffered, stderr, stderr_fault, exit_code>>
           \/ /\ Len(bytes) >= StdoutBufferCapacity
              /\ \E k \in 0..(Len(bytes) - 1) :
                    printed' = printed \o SubSeq(bytes, 1, k)
              /\ Panic(FailedPrinting)
              /\ UNCHANGED <<buffered, result>>
    /\ UNCHANGED <<event, term, acquired, pending, chosen, err_msg>>

\* lines 21-27: report what inner_main returned.  eprintln! writes the
\* message, then the newline, to standard error and panics when a write
\* fails: the message arrived whole (the newline failed), in part or not at
\* all, and the process ends with the panic status; the report of that panic
\* is written to standard error too, and arrives whole, in part or not at all.
\* A closed standard error counts as written: the process ends with the
\* failure status and nothing arrived.
\* When the process exits the buffer of standard output is flushed and a
\* failure of that write is ignored: of the chosen string the first k
\* characters arrive, of the escape sequences a failed command left there the
\* first j, and the terminal changes its modes accordingly.
Main ==
    /\ pc = "main"
    /\ \/ /\ result = "Ok"
          /\ exit_code' = "SUCCESS"
          /\ \E k \in 0..Len(buffered) :
                printed' = printed \o SubSeq(buffered, 1, k)
          /\ buffered' = <<>>
          /\ UNCHANGED <<stderr, stderr_fault>>
       \/ /\ result = "Err"
          /\ \/ /\ stderr_fault' = "none"
                /\ stderr' = Append(stderr, err_msg)
                /\ exit_code' = "FAILURE"
             \/ /\ stderr_fault' = "closed"
                /\ stderr' = stderr
                /\ exit_code' = "FAILURE"
             \/ /\ stderr_fault' = "failed"
                /\ \E k \in 0..Len(err_msg), m \in 0..Len(FailedPrintingStderr) :
                      stderr' = Written(Written(stderr, err_msg, k),
                                        FailedPrintingStderr, m)
                /\ exit_code' = "PANIC"
          /\ UNCHANGED <<printed, buffered>>
    /\ \E j \in 0..Len(pending) :
          /\ alternate_screen' =
                AlternateScreenAfter(alternate_screen, SubSeq(pending, 1, j))
          /\ mouse_capture' =
                MouseCaptureAfter(mouse_capture, SubSeq(pending, 1, j))
          /\ cursor_hidden' =
                CursorHiddenAfter(cursor_hidden, SubSeq(pending, 1, j))
    /\ pending' = <<>>
    /\ pc' = "exited"
    /\ UNCHANGED <<app, event, raw_mode, acquired, chosen, result, err_msg>>

Next ==
    \/ ReadStdin
    \/ EnableRawMode
    \/ EnterAlternateScreen
    \/ EnableMouseCapture
    \/ TerminalNew
    \/ Refresh
    \/ Draw
    \/ ReadEventErr
    \/ KeyEnter
    \/ KeyEsc
    \/ KeyUp
    \/ KeyDown
    \/ KeyEdit
    \/ EventMouse
    \/ EventOther
    \/ DisableRawMode
    \/ LeaveAlternateScreen
    \/ DisableMouseCapture
    \/ ShowCursor
    \/ PrintChosen
    \/ Main

Spec == Init /\ [][Next]_vars

TypeOK ==
    /\ pc \in {"read_stdin", "enable_raw", "enter_alt", "enable_mouse",
               "terminal_new", "loop", "draw", "read_event", "disable_raw",
               "leave_alt", "disable_mouse", "show_cursor", "print", "main",
               "exited"}
    /\ cursor \in 0..Len(query)
    /\ Len(selected) <= 1
    /\ result \in {"running", "Ok", "Err"}
    /\ exit_code \in {"running", "SUCCESS", "FAILURE", "PANIC"}
    /\ stderr_fault \in {"none", "closed", "failed"}
    /\ pc \notin {"main", "exited"} => (pending = <<>> /\ stderr = <<>>)
    /\ pc = "exited" => pending = <<>>

\* ================================================================== claims
\* The points of an iteration after reconciliation: the render and the
\* dispatch of the event.
AfterReconcile == pc \in {"draw", "read_event"}

Occurrences(seq, x) == Cardinality({k \in DOMAIN seq : seq[k] = x})

\* The score as the glossary states it: over the characters of the query, the
\* number of occurrences of each in the candidate.
OccurrenceScore(q, s) ==
    Cardinality({ij \in (DOMAIN q) \X (DOMAIN s) : q[ij[1]] = s[ij[2]]})

\* C1: at every render and every event dispatch the selection is Some(i) with
\* 0 <= i < len(filtered) when filtered is non-empty, and None when it is empty.
C1_SelectionInvariant ==
    AfterReconcile =>
        IF filtered # <<>>
        THEN IsSome(selected) /\ Unwrap(selected) >= 0
                              /\ Unwrap(selected) < Len(filtered)
        ELSE selected = None

\* C2: an Enter dispatched while the selection is Some(i) finds
\* i < len(filtered), returns the string filtered[i] and ends the session: it
\* never indexes outside the filtered list.
C2_ConfirmReturnsSelected ==
    [][(pc = "read_event" /\ event' = "Enter" /\ IsSome(selected)) =>
          /\ Unwrap(selected) < Len(filtered)
          /\ chosen' = Some(filtered[Unwrap(selected) + 1])
          /\ pc' = "disable_raw"
          /\ exit_code' = "running"]_vars

\* C3: once the terminal was acquired, when the process reports its result
\* raw mode is disabled, the alternate screen is left, mouse capture is
\* disabled and the cursor is shown.
C3_TerminalReleased ==
    (acquired /\ pc \in {"main", "exited"}) =>
        (~raw_mode /\ ~alternate_screen /\ ~mouse_capture /\ ~cursor_hidden)

\* standard error holds nothing but msg, or a beginning of msg
OnlyMessage(msg) ==
    \/ stderr = <<>>
    \/ Len(stderr) = 1 /\ IsPrefix(stderr[1], msg)

\* standard error holds nothing but msg and, behind it, the report of the
\* panic of a failed write to standard error, each whole or cut
OnlyMessageAndReport(msg) ==
    \/ OnlyMessage(msg)
    \/ Len(stderr) = 1 /\ IsPrefix(stderr[1], FailedPrintingStderr)
    \/ /\ Len(stderr) = 2
       /\ IsPrefix(stderr[1], msg)
       /\ IsPrefix(stderr[2], FailedPrintingStderr)

\* C4 as stated: an Esc ends the session with the cancellation error, which
\* is neither a chosen candidate nor an I/O error: nothing is printed to
\* standard output, the message goes to standard error and the exit status is
\* a failure.
C4_CancelOutcome ==
    event = "Esc" =>
        /\ pc \in {"main", "exited"}
        /\ result = "Err"
        /\ err_msg = UserCancelled
        /\ err_msg # IoError
        /\ chosen = None
        /\ printed = <<>> /\ buffered = <<>>
        /\ exit_code # "SUCCESS"
        /\ pc = "exited" =>
              /\ exit_code \in {"FAILURE", "PANIC"}
              /\ stderr = <<UserCancelled>>

\* C4, amended: an Esc ends the session with the cancellation error, which
\* is neither a chosen candidate nor an I/O error: nothing is printed to
\* standard output and the exit status is never success.  The message, and
\* nothing else, arrives on standard error, with the failure status, provided
\* standard error takes the write; a closed standard error receives nothing,
\* with the failure status; when the write fails the process panics, and
\* standard error holds the message, missing, cut or whole, and behind it
\* nothing but the report of that panic, missing, cut or whole.
C4_CancelOutcomeByStderr ==
    event = "Esc" =>
        /\ pc \in {"main", "exited"}
        /\ result = "Err"
        /\ err_msg = UserCancelled
        /\ err_msg # IoError
        /\ chosen = None
        /\ printed = <<>> /\ buffered = <<>>
        /\ OnlyMessageAndReport(UserCancelled)
        /\ stderr_fault # "failed" => OnlyMessage(UserCancelled)
        /\ exit_code # "SUCCESS"
        /\ pc = "exited" =>
              /\ stderr_fault = "none" =>
                    (stderr = <<UserCancelled>> /\ exit_code = "FAILURE")
              /\ stderr_fault = "closed" =>
                    (stderr = <<>> /\ exit_code = "FAILURE")
              /\ stderr_fault = "failed" => exit_code = "PANIC"

C4_Witness ==
    /\ event = "Esc"
    /\ pc = "exited"
    /\ acquired
    /\ stderr_fault = "none"
    /\ exit_code = "FAILURE"
    /\ stderr = <<UserCancelled>>

\* C5: with an empty query the filtered list is the candidate list, element
\* for element and in the same order.
C5_FilterIdentity ==
    (AfterReconcile /\ query = <<>>) => filtered = list

C5_Witness ==
    /\ pc = "draw"
    /\ query = <<>>
    /\ list = << <<"a", "b">>, <<>>, <<"a", "b">> >>

\* C6: with a non-empty query the filtered list holds exactly the candidates
\* of positive score, each as often as in the candidate list, and none of
\* score 0.
C6_PositiveScoreExactly ==
    (AfterReconcile /\ query # <<>>) =>
        /\ Range(filtered) \subseteq Range(list)
        /\ \A s \in Range(list) :
              Occurrences(filtered, s) =
                 IF OccurrenceScore(query, s) > 0 THEN Occurrences(list, s) ELSE 0

C6_Witness ==
    /\ pc = "draw"
    /\ query = <<"b">>
    /\ list = << <<"a", "b">>, <<"a", "A">>, <<"a", "b">> >>
    /\ filtered = << <<"a", "b">>, <<"a", "b">> >>

\* the indices (0-based) of the candidates of positive score
Positive(q, L) == {i \in 0..(Len(L) - 1) : OccurrenceScore(q, L[i + 1]) > 0}

\* how many positive candidates go before candidate i: those of lower score,
\* and those of equal score that come earlier in the list
Rank(q, L, i) ==
    Cardinality({j \in Positive(q, L) :
        \/ OccurrenceScore(q, L[j + 1]) < OccurrenceScore(q, L[i + 1])
        \/ /\ OccurrenceScore(q, L[j + 1]) = OccurrenceScore(q, L[i + 1])
           /\ j < i})

\* C7: with a non-empty query the filtered list is in ascending order of
\* score and entries of equal score keep the order they have in the candidate
\* list; [apple, banana, grape] with "ap" gives [grape, apple, banana].
C7_AscendingStable ==
    (AfterReconcile /\ query # <<>>) =>
        /\ \A k \in 1..(Len(filtered) - 1) :
              OccurrenceScore(query, filtered[k])
                 <= OccurrenceScore(query, filtered[k + 1])
        /\ Len(filtered) = Cardinality(Positive(query, list))
        /\ \A i \in Positive(query, list) :
              filtered[Rank(query, list, i) + 1] = list[i + 1]
        /\ (list = ExampleList /\ query = <<"a", "p">>)
              => filtered = <<grape, apple, banana>>

C7_Witness ==
    /\ pc = "draw"
    /\ list = ExampleList
    /\ query = <<"a", "p">>
    /\ Len(filtered) = 3

\* C8: after an Enter returned a candidate and the process exits with
\* success, standard output holds exactly that string and nothing else; on
\* every other termination (cancellation, a failed read of standard input, a
\* terminal I/O failure, an abort) nothing was printed and the status is a
\* failure.
C8_OutputContract ==
    /\ exit_code = "SUCCESS" =>
          /\ event = "Enter"
          /\ IsSome(chosen)
          /\ printed = Utf8(Unwrap(chosen))
          /\ stderr = <<>>
    /\ printed # <<>> =>
          /\ result = "Ok"
          /\ IsSome(chosen)
          /\ printed = Utf8(Unwrap(chosen))
    /\ pc = "exited" =>
          /\ exit_code \in {"SUCCESS", "FAILURE", "PANIC"}
          /\ result = "Ok" <=> exit_code = "SUCCESS"
          /\ exit_code # "SUCCESS" => printed = <<>>

\* C9 as stated: every event that is not a key event aborts the process.
C9_EveryNonKeyEventAborts ==
    event \in OtherEvents \cup {"Mouse"} => exit_code = "PANIC"

\* C9, amended: a mouse event aborts the process in whatever state it
\* arrives, with the panic status and nothing but the panic message on
\* standard error, where it arrives whole if standard error takes the write;
\* the other events that are not key events are ignored and the loop goes on.
C9_MouseAbortsOthersIgnored ==
    /\ event = "Mouse" =>
          /\ pc = "exited"
          /\ exit_code = "PANIC"
          /\ OnlyMessage(NotYetImplemented)
          /\ stderr_fault = "none" => stderr = <<NotYetImplemented>>
          /\ printed = <<>> /\ buffered = <<>>
    /\ event \in OtherEvents => (pc = "loop" /\ exit_code = "running")

C9_Witness ==
    /\ event = "Mouse"
    /\ pc = "exited"
    /\ acquired
    /\ stderr_fault = "none"
    /\ stderr = <<NotYetImplemented>>

\* C10: an Enter dispatched while nothing is selected changes nothing: the
\* session goes on with the next iteration, nothing is returned or written,
\* and query, cursor, selection and candidate list are as before.
C10_ConfirmUnselectedNoOp ==
    [][(pc = "read_event" /\ event' = "Enter" /\ selected = None) =>
          /\ pc' = "loop"
          /\ UNCHANGED <<list, query, cursor, selected, filtered>>
          /\ UNCHANGED <<chosen, result, err_msg, printed, buffered, stderr,
                         exit_code>>
          /\ UNCHANGED <<raw_mode, alternate_screen, mouse_capture>>]_vars

C10_Witness ==
    /\ pc = "loop"
    /\ event = "Enter"
    /\ selected = None
    /\ query # <<>>


\* C11: a failed read of standard input ends the program before any UI: raw
\* mode, the alternate screen and mouse capture are never enabled, no escape
\* sequence is written, the event loop never starts (no event is read,
\* nothing is chosen or printed) and the process exits with a failure status,
\* never with success.
C11_StdinFailureBeforeUi ==
    err_msg = StdinError =>
        /\ pc \in {"main", "exited"}
        /\ result = "Err"
        /\ ~raw_mode /\ ~alternate_screen /\ ~mouse_capture /\ ~acquired
        /\ pending = <<>>
        /\ event = "none"
        /\ chosen = None
        /\ printed = <<>> /\ buffered = <<>>
        /\ exit_code # "SUCCESS"
        /\ pc = "exited" => exit_code \in {"FAILURE", "PANIC"}

C11_Witness ==
    /\ err_msg = StdinError
    /\ pc = "exited"
    /\ exit_code = "FAILURE"
    /\ ~raw_mode /\ ~alternate_screen /\ ~mouse_capture


\* C12: Move Down takes Some(i) with i + 1 < len(filtered) to Some(i + 1) and
\* leaves Some(last) unchanged; it takes None to Some(0) if filtered is not
\* empty and leaves it unchanged otherwise. It never changes the query, and
\* the index it leaves is never >= len(filtered).
C12_MoveDown ==
    [][(pc = "read_event" /\ event' = "Down") =>
          /\ (IsSome(selected) /\ Unwrap(selected) + 1 < Len(filtered))
                => selected' = Some(Unwrap(selected) + 1)
          /\ (IsSome(selected) /\ Unwrap(selected) + 1 >= Len(filtered))
                => selected' = selected
          /\ (selected = None /\ filtered # <<>>) => selected' = Some(0)
          /\ (selected = None /\ filtered = <<>>) => selected' = None
          /\ query' = query
          /\ IsSome(selected') => Unwrap(selected') < Len(filtered)]_vars

\* the transitions of C12 alone, without the bound on the index
C12_MoveDownTransitions ==
    [][(pc = "read_event" /\ event' = "Down") =>
          /\ (IsSome(selected) /\ Unwrap(selected) + 1 < Len(filtered))
                => selected' = Some(Unwrap(selected) + 1)
          /\ (IsSome(selected) /\ Unwrap(selected) + 1 >= Len(filtered))
                => selected' = selected
          /\ (selected = None /\ filtered # <<>>) => selected' = Some(0)
          /\ (selected = None /\ filtered = <<>>) => selected' = None
          /\ query' = query]_vars

\* C13: Move Up takes Some(i) with i > 0 to Some(i - 1) and leaves Some(0)
\* unchanged (no wraparound, never None); it takes None to Some(len - 1) if
\* filtered is not empty and leaves it unchanged otherwise.
C13_MoveUp ==
    [][(pc = "read_event" /\ event' = "Up") =>
          /\ (IsSome(selected) /\ Unwrap(selected) > 0)
                => selected' = Some(Unwrap(selected) - 1)
          /\ selected = Some(0) => selected' = Some(0)
          /\ (selected = None /\ filtered # <<>>)
                => selected' = Some(Len(filtered) - 1)
          /\ (selected = None /\ filtered = <<>>) => selected' = None]_vars

C13_Witness ==
    /\ pc = "loop"
    /\ event = "Up"
    /\ selected = Some(0)
    /\ Len(filtered) >= 2


\* C14: the reconciliation that follows the recomputation takes Some(i) with
\* i >= len(filtered) to Some(len - 1) when filtered is not empty and to None
\* when it is empty, takes None to Some(0) when filtered is not empty, and
\* leaves the selection unchanged in every other case.
C14_Reconciliation ==
    [][(pc = "loop" /\ pc' = "draw") =>
          selected' =
             IF IsSome(selected) /\ Unwrap(selected) >= Len(filtered')
             THEN (IF filtered' # <<>> THEN Some(Len(filtered') - 1) ELSE None)
             ELSE IF selected = None /\ filtered' # <<>> THEN Some(0)
             ELSE selected]_vars


\* C15: an iteration recomputes the filtered list and reconciles the
\* selection, then renders, then waits for one event and dispatches it, with
\* nothing in between; so at every render and every dispatch the stored
\* filtered list is the filter of the current query over the candidates.
C15_IterationOrder ==
    /\ [](AfterReconcile => filtered = fuzzy_find(query, list))
    /\ [][/\ pc = "loop" =>
                /\ pc' = "draw"
                /\ filtered' = fuzzy_find(query, list)
                /\ selected' = Reconcile(selected, filtered')
                /\ UNCHANGED <<list, query, cursor>>
          /\ pc = "draw" =>
                /\ pc' \in {"read_event", "main"}
                /\ pc' = "read_event" => UNCHANGED app
          /\ pc = "read_event" =>
                pc' \in {"loop", "disable_raw", "main", "exited"}]_vars

C15_Witness ==
    /\ pc = "read_event"
    /\ query = <<"a", "b">>
    /\ list = << <<"a", "b">>, <<>>, <<"a", "A">> >>
    /\ filtered = << <<"a", "A">>, <<"a", "b">> >>


\* the rearrangements of the positions 1..n
Perms(n) == {f \in [1..n -> 1..n] : \A i, j \in 1..n : f[i] = f[j] => i = j}

\* C16: the score adds up over the query: the score of q1 \o q2 is the score
\* of q1 plus the score of q2, so every rearrangement of the query has the
\* same score and a character typed k times counts k times; a query character
\* (checked at every render, for the query and the candidates of that state)
\* counts only for occurrences of exactly that character (upper and lower
\* case are different characters).
C16_ScoreAdditive ==
    pc = "draw" => \A s \in Range(list) :
        /\ \A k \in 0..Len(query) :
              compute_fuzzy_find_score(query, s)
                 = compute_fuzzy_find_score(SubSeq(query, 1, k), s)
                   + compute_fuzzy_find_score(SubSeq(query, k + 1, Len(query)), s)
        /\ \A f \in Perms(Len(query)) :
              compute_fuzzy_find_score([i \in 1..Len(query) |-> query[f[i]]], s)
                 = compute_fuzzy_find_score(query, s)
        /\ \A c \in Range(query) :
              /\ compute_fuzzy_find_score(<<c, c, c>>, s)
                    = 3 * compute_fuzzy_find_score(<<c>>, s)
              /\ compute_fuzzy_find_score(<<c>>, s)
                    = Cardinality({j \in DOMAIN s : s[j] = c})
        /\ compute_fuzzy_find_score(query, s) = OccurrenceScore(query, s)

C16_Witness ==
    /\ pc = "draw"
    /\ query = <<"a", "a">>
    /\ list = << <<"a", "A">>, <<"b", "a">> >>
    /\ compute_fuzzy_find_score(query, list[1]) = 2


\* C17: at every event dispatch a selection of None implies an empty filtered
\* list, so Move Up and Move Down never change a selection of None: the jump
\* of Move Up from None to the last entry never happens.
C17_UnselectedImpliesEmpty ==
    /\ []((pc = "read_event" /\ selected = None) => filtered = <<>>)
    /\ [][(pc = "read_event" /\ event' \in {"Up", "Down"} /\ selected = None)
             => selected' = None]_vars

C17_Witness ==
    /\ pc = "loop"
    /\ event = "Up"
    /\ selected = None
    /\ query # <<>>

\* the session: run_app is in its loop
InSession == pc \in {"loop", "draw", "read_event"}

\* C18: once the selection is Some(i) no event of the session returns it to
\* None; the session starts with None and, after the first reconciliation,
\* the selection is None only if every filtered list computed so far was
\* empty, that is only if there is no candidate at all.
C18_SelectionMonotone ==
    /\ [][(InSession /\ IsSome(selected) /\ pc' \in {"loop", "draw", "read_event"})
             => IsSome(selected')]_vars
    /\ [][(pc = "terminal_new" /\ pc' = "loop") => selected' = None]_vars
    /\ []((AfterReconcile /\ selected = None) => list = <<>>)
    /\ []((AfterReconcile /\ list # <<>>) => IsSome(selected))

C18_Witness ==
    /\ pc = "read_event"
    /\ IsSome(selected)
    /\ list # <<>>
    /\ filtered = <<>>


\* C19: the dispatch of a text-editing key changes nothing but the query
\* buffer, so the selection index is as before, and the next reconciliation
\* keeps an index that is still < len(filtered) although it may now stand for
\* another candidate; Move Up and Move Down leave the query and the cursor as
\* they are; no event of the session changes the candidate list.
C19_DispatchFrame ==
    /\ [][(pc = "read_event" /\ pc' = "loop") =>
             /\ list' = list
             /\ event' \in EditKeys \cup QueryChars =>
                   /\ selected' = selected
                   /\ filtered' = filtered
                   /\ UNCHANGED <<term, outcome>>
             /\ event' \in {"Up", "Down"} =>
                   (query' = query /\ cursor' = cursor)]_vars
    /\ [][(pc = "loop" /\ pc' = "draw") =>
             /\ list' = list
             /\ (IsSome(selected) /\ Unwrap(selected) < Len(filtered'))
                   => selected' = selected]_vars

\* the key "b" was typed with the second of three candidates selected: the
\* index stays 1, which is "ab" in the old list and "ba" in the new one
C19_Witness ==
    /\ pc = "loop"
    /\ event = "b"
    /\ query = <<"b">>
    /\ selected = Some(1)
    /\ list = << <<"a", "A">>, <<"a", "b">>, <<"b", "a">> >>
    /\ filtered[2] = <<"a", "b">>
    /\ Reconcile(selected, fuzzy_find(query, list)) = Some(1)
    /\ fuzzy_find(query, list)[2] = <<"b", "a">>


\* the release steps of the success path, in the order of the code
ReleaseSteps == {"disable_raw", "leave_alt", "disable_mouse", "show_cursor"}

\* C20: on the success path raw mode is disabled, then the alternate screen
\* is left, then mouse capture is disabled, then the cursor is shown, and only
\* then is the chosen string written, and what reaches standard output is
\* that string or the beginning of it; a release step that fails skips the
\* steps after it (it changes no mode but, in part, its own), and the chosen
\* string is never written although an Enter confirmed it.
C20_ReleaseBeforePrint ==
    /\ [](pc = "disable_raw" => (raw_mode /\ alternate_screen /\ mouse_capture))
    /\ [](pc = "leave_alt" => (~raw_mode /\ alternate_screen /\ mouse_capture))
    /\ [](pc = "disable_mouse" => (~raw_mode /\ ~alternate_screen /\ mouse_capture))
    /\ [](pc \in {"show_cursor", "print"} =>
             (~raw_mode /\ ~alternate_screen /\ ~mouse_capture))
    /\ [](pc \in ReleaseSteps \cup {"print"} =>
             (IsSome(chosen) /\ printed = <<>> /\ buffered = <<>>))
    /\ []((printed # <<>> \/ buffered # <<>>) =>
             (~raw_mode /\ ~alternate_screen /\ ~mouse_capture /\ ~cursor_hidden))
    /\ [][(pc = "show_cursor" /\ pc' = "print") => ~cursor_hidden']_vars
    /\ [][printed' # printed =>
             /\ pc \in {"print", "main"}
             /\ IsPrefix(printed', Utf8(Unwrap(chosen)))]_vars
    /\ [][(buffered' # buffered /\ buffered' # <<>>) =>
             (pc = "print" /\ buffered' = Utf8(Unwrap(chosen)))]_vars
    /\ [][(pc \in ReleaseSteps /\ pc' = "main") =>
             /\ result' = "Err"
             /\ UNCHANGED <<raw_mode, alternate_screen, cursor_hidden>>
             /\ pc # "disable_mouse" => UNCHANGED mouse_capture
             /\ UNCHANGED <<chosen, printed, buffered>>]_vars
    /\ []((IsSome(chosen) /\ result = "Err") =>
             /\ printed = <<>>
             /\ buffered = <<>>
             /\ pc \in {"main", "exited"}
             /\ pc = "exited" => exit_code \in {"FAILURE", "PANIC"})

\* an Enter returned a candidate, leaving the alternate screen failed: raw
\* mode is off, the screen and the mouse capture are not released, and
\* nothing was written
C20_Witness ==
    /\ pc = "exited"
    /\ IsSome(chosen)
    /\ result = "Err"
    /\ ~raw_mode /\ alternate_screen /\ mouse_capture
    /\ printed = <<>> /\ buffered = <<>>

====
